---- MODULE Spec2Model ----
\* Content-resolution layer of the Directus/Next.js frontend: the fetchers
\* (fetchPageData, fetchPageDataById, getPageIdByPermalink, getPostIdBySlug,
\* fetchPostByIdAndVersion, fetchSiteData, fetchPostBySlug, fetchPaginatedPosts,
\* fetchTotalPostCount, fetchRedirects) and the two route handlers (Page,
\* BlogPostPage), run against a read-only content store.
EXTENDS Integers, Sequences, FiniteSets, TLC

VARIABLES pages, posts, call

vars == <<pages, posts, call>>

\* ------------------------------------------------------------------ bounds
MaxPosts == 4
MaxBlocks == 2
MaxPostPage == 2

\* ----------------------------------------------------------------- strings
\* A JavaScript string is a sequence of one-character strings; undefined and
\* null are one-element sequences whose element is no character.
Undefined == <<"undefined">>
NullId == <<"null">>
Empty == <<>>
Space == <<" ">>
SlugA == <<"a">>
SlugB == <<"b">>
Root == <<"/">>
PathA == <<"/", "a">>
Main == <<"m", "a", "i", "n">>
PublishedVersion == <<"p", "u", "b", "l", "i", "s", "h", "e", "d">>
VersionV == <<"v">>
Token == <<"t">>

\* !!s for s : string | undefined
Truthy(s) == s # Undefined /\ s # NullId /\ s # Empty

RECURSIVE TrimStart(_)
TrimStart(s) == IF s # <<>> /\ Head(s) = " " THEN TrimStart(Tail(s)) ELSE s

RECURSIVE TrimEnd(_)
TrimEnd(s) ==
    IF s # <<>> /\ s[Len(s)] = " " THEN TrimEnd(SubSeq(s, 1, Len(s) - 1)) ELSE s

\* String.prototype.trim
Trim(s) == TrimEnd(TrimStart(s))

\* as IsBlank, without the trim
IsBlankMutant(s) == ~Truthy(s)
\* the guard `!x || x.trim() === ''` of the validating fetchers
IsBlank(s) == ~Truthy(s) \/ Trim(s) = Empty

\* a || undefined
OrUndefined(s) == IF Truthy(s) THEN s ELSE Undefined

\* ------------------------------------------------------------------- store
NoNum == -1

Min(a, b) == IF a < b THEN a ELSE b

\* one request handed to directus.request; fields names the field selection
Request(op, coll, fields, eq, neq, published, limit, page, sort, id, version, token) ==
    [op |-> op, coll |-> coll, fields |-> fields, eq |-> eq, neq |-> neq,
     published |-> published,
     limit |-> limit, page |-> page, sort |-> sort, id |-> id,
     version |-> version, token |-> token]

SelectRows(rows, Keep(_)) == SelectSeq(rows, Keep)

RowSet(rows) == {rows[i] : i \in 1..Len(rows)}

\* insert row into a sequence already ordered by ascending key, after its equals
RECURSIVE InsertRow(_, _, _)
InsertRow(row, sorted, key) ==
    IF sorted = <<>> THEN <<row>>
    ELSE IF key[row] < key[Head(sorted)] THEN <<row>> \o sorted
         ELSE <<Head(sorted)>> \o InsertRow(row, Tail(sorted), key)

\* the store's ORDER BY: a stable sort by ascending key
RECURSIVE SortRows(_, _)
SortRows(rows, key) ==
    IF rows = <<>> THEN <<>>
    ELSE InsertRow(rows[Len(rows)], SortRows(SubSeq(rows, 1, Len(rows) - 1), key), key)

\* limit / page of a query: rows (page-1)*limit+1 .. page*limit
Paginate(rows, limit, page) ==
    IF limit = NoNum THEN rows
    ELSE LET p == IF page = NoNum THEN 1 ELSE page
             from == (p - 1) * limit + 1
             to == Min(p * limit, Len(rows))
         IN  IF from > to THEN <<>> ELSE SubSeq(rows, from, to)

\* deep: { blocks: { _sort: ['sort'], _filter: { hide_block: { _neq: true } } } }
DeepBlocks(page) ==
    LET Visible(b) == ~b.hide_block
        visible == SelectRows(page.blocks, Visible)
    IN  [page EXCEPT !.blocks = SortRows(visible, [b \in RowSet(visible) |-> b.sort])]

RECURSIVE MapDeep(_)
MapDeep(rows) ==
    IF rows = <<>> THEN <<>> ELSE <<DeepBlocks(Head(rows))>> \o MapDeep(Tail(rows))

\* readItems('pages', ...) answered by the store
ReadPages(req) ==
    LET Keep(p) == /\ (req.eq # Undefined => p.permalink = req.eq)
                   /\ (req.published => p.status = "published")
    IN  Paginate(MapDeep(SelectRows(pages, Keep)), req.limit, req.page)

\* readItems('posts', ...) answered by the store
ReadPosts(req) ==
    LET Keep(p) == /\ (req.eq # Undefined => p.slug = req.eq)
                   /\ (req.neq # Undefined => p.slug # req.neq)
                   /\ (req.published => p.status = "published")
        matching == SelectRows(posts, Keep)
        ordered == IF req.sort = "-published_at"
                   THEN SortRows(matching, [p \in RowSet(matching) |-> 0 - p.published_at])
                   ELSE matching
    IN  Paginate(ordered, req.limit, req.page)

\* readItem(coll, id, { version }) answered by the store: the rows with that id
ReadById(rows, id) ==
    LET Keep(r) == r.id = id
    IN  SelectRows(rows, Keep)

\* ----------------------------------------------------------------- results
Thrown(err, reqs) == [ok |-> FALSE, val |-> <<>>, err |-> err, reqs |-> reqs]
Returned(val, reqs) == [ok |-> TRUE, val |-> val, err |-> "", reqs |-> reqs]

\* a request fails when it is the failAt-th request of the call (0: none fails)
Fails(failAt, n) == failAt = n

\* messages of the errors the fetchers throw
StoreError == "store error"
PageNotFound == "Page not found"
FailedPageData == "Failed to fetch page data"
InvalidId == "Invalid id: id must be a non-empty string"
InvalidVersion == "Invalid version: version must be a non-empty string"
InvalidPermalink == "Invalid permalink: permalink must be a non-empty string"
InvalidSlug == "Invalid slug: slug must be a non-empty string"
FailedVersionedPage == "Failed to fetch versioned page"
FailedVersionedPost == "Failed to fetch versioned post"
FailedSiteData == "Failed to fetch site data"
FailedPostBySlug == "Failed to fetch blog post and related posts"
FailedPaginatedPosts == "Failed to fetch paginated posts"

\* ------------------------------------------------------------ fetchPageData
DefaultLimit == 6

\* filter: preview && token ? { permalink } : { permalink, status: published }
PageQuery(permalink, token, preview) ==
    Request("readItems", "pages", "pageFields", permalink, Undefined, ~(preview /\ Truthy(token)),
            1, NoNum, "none", Undefined, Undefined, token)

\* the secondary query of a posts block
PostsBlockQuery(limit, postPage) ==
    Request("readItems", "posts", "postCard", Undefined, Undefined, TRUE,
            limit, postPage, "-published_at", Undefined, Undefined, Undefined)

\* the condition under which a block is enriched
IsPostsBlock(block) ==
    /\ block.collection = "block_posts"
    /\ block.item.kind = "object"
    /\ block.item.hasCollection
    /\ block.item.collection = "posts"

\* as BlockLimit, without the default
BlockLimitMutant(block) == block.item.limit
BlockLimit(block) == IF block.item.limit = NoNum THEN DefaultLimit ELSE block.item.limit

\* the loop over page.blocks; issued is the number of requests made so far
RECURSIVE EnrichBlocks(_, _, _, _)
EnrichBlocks(blocks, postPage, failAt, issued) ==
    IF blocks = <<>> THEN [ok |-> TRUE, blocks |-> <<>>, reqs |-> <<>>]
    ELSE LET block == Head(blocks)
         IN  IF IsPostsBlock(block)
             THEN LET req == PostsBlockQuery(BlockLimit(block), postPage)
                  IN  IF Fails(failAt, issued + 1)
                      THEN [ok |-> FALSE, blocks |-> <<>>, reqs |-> <<req>>]
                      ELSE LET rest == EnrichBlocks(Tail(blocks), postPage, failAt, issued + 1)
                               enriched == [block EXCEPT !.item.hasPosts = TRUE,
                                                         !.item.posts = ReadPosts(req)]
                           IN  [ok |-> rest.ok,
                                blocks |-> <<enriched>> \o rest.blocks,
                                reqs |-> <<req>> \o rest.reqs]
             ELSE LET rest == EnrichBlocks(Tail(blocks), postPage, failAt, issued)
                  IN  [rest EXCEPT !.blocks = <<block>> \o rest.blocks]

\* the body of the try block
FetchPageDataTry(permalink, postPage, token, preview, failAt) ==
    LET req == PageQuery(permalink, token, preview)
        pageData == ReadPages(req)
    IN  IF Fails(failAt, 1) THEN Thrown(StoreError, <<req>>)
        ELSE IF Len(pageData) = 0 THEN Thrown(PageNotFound, <<req>>)
        ELSE LET page == pageData[1]
             IN  IF page.hasBlocks
                 THEN LET e == EnrichBlocks(page.blocks, postPage, failAt, 1)
                      IN  IF e.ok
                          THEN Returned([page EXCEPT !.blocks = e.blocks], <<req>> \o e.reqs)
                          ELSE Thrown(StoreError, <<req>> \o e.reqs)
                 ELSE Returned(page, <<req>>)

\* the catch block rethrows every failure of the try block under one message
fetchPageData(permalink, postPage, token, preview, failAt) ==
    LET r == FetchPageDataTry(permalink, postPage, token, preview, failAt)
    IN  IF r.ok THEN r ELSE Thrown(FailedPageData, r.reqs)

\* -------------------------------------------------------- fetchPageDataById
fetchPageDataById(id, version, token, failAt) ==
    IF IsBlank(id) THEN Thrown(InvalidId, <<>>)
    ELSE IF IsBlank(version) THEN Thrown(InvalidVersion, <<>>)
    ELSE LET req == Request("readItem", "pages", "pageFields", Undefined, Undefined, FALSE,
                            NoNum, NoNum, "none", id, version, token)
             rows == ReadById(pages, id)
         IN  IF Fails(failAt, 1) \/ Len(rows) = 0
             THEN Thrown(FailedVersionedPage, <<req>>)
             ELSE Returned(DeepBlocks(rows[1]), <<req>>)

\* ------------------------------------- getPageIdByPermalink, getPostIdBySlug
getPageIdByPermalink(permalink, token, failAt) ==
    IF IsBlank(permalink) THEN Thrown(InvalidPermalink, <<>>)
    ELSE LET req == Request("readItems", "pages", "id", permalink, Undefined, FALSE,
                            1, NoNum, "none", Undefined, Undefined, token)
             pageData == ReadPages(req)
         IN  IF Fails(failAt, 1) THEN Returned(NullId, <<req>>)
             ELSE Returned(IF Len(pageData) > 0 THEN pageData[1].id ELSE NullId, <<req>>)

\* as getPostIdBySlug, with the store failure thrown on to the caller
getPostIdBySlugMutant(slug, token, failAt) ==
    IF IsBlank(slug) THEN Thrown(InvalidSlug, <<>>)
    ELSE LET req == Request("readItems", "posts", "id", slug, Undefined, FALSE,
                            1, NoNum, "none", Undefined, Undefined, token)
             postData == ReadPosts(req)
         IN  IF Fails(failAt, 1) THEN Thrown(StoreError, <<req>>)
             ELSE Returned(IF Len(postData) > 0 THEN postData[1].id ELSE NullId, <<req>>)

getPostIdBySlug(slug, token, failAt) ==
    IF IsBlank(slug) THEN Thrown(InvalidSlug, <<>>)
    ELSE LET req == Request("readItems", "posts", "id", slug, Undefined, FALSE,
                            1, NoNum, "none", Undefined, Undefined, token)
             postData == ReadPosts(req)
         IN  IF Fails(failAt, 1) THEN Returned(NullId, <<req>>)
             ELSE Returned(IF Len(postData) > 0 THEN postData[1].id ELSE NullId, <<req>>)

\* --------------------------------------------------- fetchPostByIdAndVersion
\* filter: { slug: { _neq: slug }, status: { _eq: 'published' } }, limit: 2
\* as RelatedQuery, without the limit
RelatedQueryMutant(slug, token) ==
    Request("readItems", "posts", "related", Undefined, slug, TRUE,
            NoNum, NoNum, "none", Undefined, Undefined, token)
RelatedQuery(slug, token) ==
    Request("readItems", "posts", "related", Undefined, slug, TRUE,
            2, NoNum, "none", Undefined, Undefined, token)

fetchPostByIdAndVersion(id, version, slug, token, failAt) ==
    IF IsBlank(id) THEN Thrown(InvalidId, <<>>)
    ELSE IF IsBlank(version) THEN Thrown(InvalidVersion, <<>>)
    ELSE IF IsBlank(slug) THEN Thrown(InvalidSlug, <<>>)
    ELSE LET req == Request("readItem", "posts", "postFields", Undefined, Undefined, FALSE,
                            NoNum, NoNum, "none", id, version, token)
             related == RelatedQuery(slug, Undefined)
             rows == ReadById(posts, id)
         IN  IF Fails(failAt, 1) \/ Fails(failAt, 2) \/ Len(rows) = 0
             THEN Thrown(FailedVersionedPost, <<req, related>>)
             ELSE Returned([post |-> <<rows[1]>>, relatedPosts |-> ReadPosts(related)],
                           <<req, related>>)

\* ------------------------------------------------------------ fetchSiteData
Footer == <<"f", "o", "o", "t", "e", "r">>

fetchSiteData(failAt) ==
    LET globals == Request("readSingleton", "globals", "globals", Undefined, Undefined, FALSE,
                           NoNum, NoNum, "none", Undefined, Undefined, Undefined)
        header == Request("readItem", "navigation", "navigation", Undefined, Undefined, FALSE,
                          NoNum, NoNum, "sort", Main, Undefined, Undefined)
        footer == Request("readItem", "navigation", "navigation", Undefined, Undefined, FALSE,
                          NoNum, NoNum, "none", Footer, Undefined, Undefined)
        reqs == <<globals, header, footer>>
    IN  IF \E n \in 1..3 : Fails(failAt, n) THEN Thrown(FailedSiteData, reqs)
        ELSE Returned([globals |-> "globals", headerNavigation |-> Main,
                       footerNavigation |-> Footer], reqs)

\* ---------------------------------------------------------- fetchPostBySlug
\* as PostQuery, never sending the status condition
PostQueryMutant(slug, draft, token) ==
    Request("readItems", "posts", "postFields", slug, Undefined, FALSE,
            1, NoNum, "none", Undefined, Undefined, token)
\* token || draft ? { slug } : { slug, status: published }
PostQuery(slug, draft, token) ==
    Request("readItems", "posts", "postFields", slug, Undefined, ~(Truthy(token) \/ draft),
            1, NoNum, "none", Undefined, Undefined, token)

fetchPostBySlug(slug, draft, token, failAt) ==
    LET req == PostQuery(slug, draft, token)
        related == RelatedQuery(slug, token)
        found == ReadPosts(req)
    IN  IF Fails(failAt, 1) \/ Fails(failAt, 2)
        THEN Thrown(FailedPostBySlug, <<req, related>>)
        ELSE Returned([post |-> IF Len(found) > 0 THEN <<found[1]>> ELSE <<>>,
                       relatedPosts |-> ReadPosts(related)], <<req, related>>)

\* ------------------------------------------------------ fetchPaginatedPosts
fetchPaginatedPosts(limit, page, failAt) ==
    LET req == Request("readItems", "posts", "postList", Undefined, Undefined, TRUE,
                       limit, page, "-published_at", Undefined, Undefined, Undefined)
    IN  IF Fails(failAt, 1) THEN Thrown(FailedPaginatedPosts, <<req>>)
        ELSE Returned(ReadPosts(req), <<req>>)

\* ------------------------------------------------------ fetchTotalPostCount
\* aggregate('posts', { count: '*', filter: published }) answered by the store:
\* one row when the collection has published posts, none otherwise
CountPosts(req) ==
    LET n == Len(ReadPosts(req))
    IN  IF n = 0 THEN <<>> ELSE <<[count |-> n]>>

fetchTotalPostCount(failAt) ==
    LET req == Request("aggregate", "posts", "count", Undefined, Undefined, TRUE,
                       NoNum, NoNum, "none", Undefined, Undefined, Undefined)
        response == CountPosts(req)
    IN  IF Fails(failAt, 1) THEN Returned(0, <<req>>)
        ELSE Returned(IF Len(response) > 0 /\ response[1].count # 0
                      THEN response[1].count ELSE 0, <<req>>)

\* ----------------------------------------------------------- fetchRedirects
\* the redirects collection: a missing url is NullId
Redirects ==
    <<[url_from |-> PathA, url_to |-> Root, response_code |-> 301],
      [url_from |-> NullId, url_to |-> Root, response_code |-> 302],
      [url_from |-> Root, url_to |-> NullId, response_code |-> 301]>>

fetchRedirects(failAt) ==
    LET req == Request("readItems", "redirects", "redirect", Undefined, Undefined, FALSE,
                       NoNum, NoNum, "none", Undefined, Undefined, Undefined)
        Keep(r) == r.url_from # NullId /\ r.url_to # NullId
    IN  IF Fails(failAt, 1) THEN Thrown(StoreError, <<req>>)
        ELSE Returned(SelectRows(Redirects, Keep), <<req>>)

\* ----------------------------------------------------------- route handlers
TrueParam == <<"t", "r", "u", "e">>

\* the not-found outcome (notFound() of the page route, the 404 element of the
\* post route) and the rendered view
NotFound(reqs, path) == [outcome |-> "notFound", view |-> <<>>, reqs |-> reqs, path |-> path]
Rendered(view, reqs, path) == [outcome |-> "render", view |-> view, reqs |-> reqs, path |-> path]

\* failAt as seen by a call made after n requests of the handler
Shift(failAt, n) == IF failAt > n THEN failAt - n ELSE 0

RECURSIVE Join(_)
Join(segments) ==
    IF segments = <<>> THEN <<>>
    ELSE IF Len(segments) = 1 THEN Head(segments)
    ELSE Head(segments) \o <<"/">> \o Join(Tail(segments))

\* `/${permalinkSegments.join('/')}`.replace(/\/$/, '') || '/'
ResolvedPermalink(segments) ==
    LET joined == <<"/">> \o Join(segments)
        stripped == IF joined[Len(joined)] = "/"
                    THEN SubSeq(joined, 1, Len(joined) - 1) ELSE joined
    IN  IF stripped = Empty THEN Root ELSE stripped

\* typeof v === 'string' ? v : ''
StringParam(v) == IF v = Undefined THEN Empty ELSE v

\* version != 'main' ? version : undefined
FixedVersion(version) == IF version # Main THEN version ELSE Undefined

\* if (!page || !page.blocks) notFound()
HasNoBlocks(page) == ~page.hasBlocks

\* the tail of Page: the emptiness check and the view
PageView(r, reqs, path) ==
    IF ~r.ok THEN NotFound(reqs, path)
    ELSE IF HasNoBlocks(r.val) THEN NotFound(reqs, path)
    ELSE Rendered([sections |-> r.val.blocks, pageId |-> r.val.id], reqs, path)

Page(segments, idParam, versionParam, previewParam, tokenParam, failAt) ==
    LET resolvedPermalink == ResolvedPermalink(segments)
        id == StringParam(idParam)
        version == StringParam(versionParam)
        preview == previewParam = TrueParam
        token == StringParam(tokenParam)
        fixedVersion == FixedVersion(version)
    IN  IF Truthy(fixedVersion) /\ Truthy(id)
        THEN LET r == fetchPageDataById(id, fixedVersion, OrUndefined(token), failAt)
             IN  PageView(r, r.reqs, 1)
        ELSE IF Truthy(fixedVersion) /\ ~Truthy(id)
        THEN LET l == getPageIdByPermalink(resolvedPermalink, OrUndefined(token), failAt)
             IN  IF ~l.ok \/ ~Truthy(l.val) THEN NotFound(l.reqs, 2)
                 ELSE LET r == fetchPageDataById(l.val, fixedVersion, OrUndefined(token),
                                                 Shift(failAt, Len(l.reqs)))
                      IN  PageView(r, l.reqs \o r.reqs, 2)
        ELSE LET r == fetchPageData(resolvedPermalink, 1, OrUndefined(token), preview, failAt)
             IN  PageView(r, r.reqs, 3)

\* (preview === 'true' && !!token) || (!!version && version !== 'published') || !!token
IsDraft(version, preview, token) ==
    \/ (preview = TrueParam /\ Truthy(token))
    \/ (Truthy(version) /\ version # PublishedVersion)
    \/ Truthy(token)

\* the tail of BlogPostPage: the null check and the view
PostView(r, reqs, path) ==
    IF ~r.ok THEN NotFound(reqs, path)
    ELSE IF r.val.post = <<>> THEN NotFound(reqs, path)
    ELSE Rendered([post |-> r.val.post[1], relatedPosts |-> r.val.relatedPosts], reqs, path)

\* as BlogPostPage, with a failed id lookup falling through to the slug resolver
BlogPostPageMutant(slug, id, version, preview, token, failAt) ==
    LET isDraft == IsDraft(version, preview, token)
        fixedVersion == FixedVersion(version)
        lookedUp == Truthy(fixedVersion) /\ ~Truthy(id)
        l == getPostIdBySlug(slug, OrUndefined(token), failAt)
    IN  IF lookedUp /\ ~l.ok THEN NotFound(l.reqs, 2)
        ELSE LET postId == IF lookedUp THEN l.val ELSE id
                 before == IF lookedUp THEN l.reqs ELSE <<>>
             IN  IF Truthy(postId) /\ Truthy(fixedVersion)
                 THEN LET r == fetchPostByIdAndVersion(postId, fixedVersion, slug,
                                   OrUndefined(token), Shift(failAt, Len(before)))
                      IN  PostView(r, before \o r.reqs, IF lookedUp THEN 2 ELSE 1)
                 ELSE LET r == fetchPostBySlug(slug, isDraft, token,
                                               Shift(failAt, Len(before)))
                      IN  PostView(r, before \o r.reqs, 3)

BlogPostPage(slug, id, version, preview, token, failAt) ==
    LET isDraft == IsDraft(version, preview, token)
        fixedVersion == FixedVersion(version)
        lookedUp == Truthy(fixedVersion) /\ ~Truthy(id)
        l == getPostIdBySlug(slug, OrUndefined(token), failAt)
    IN  IF lookedUp /\ (~l.ok \/ ~Truthy(l.val)) THEN NotFound(l.reqs, 2)
        ELSE LET postId == IF lookedUp THEN l.val ELSE id
                 before == IF lookedUp THEN l.reqs ELSE <<>>
             IN  IF Truthy(postId) /\ Truthy(fixedVersion)
                 THEN LET r == fetchPostByIdAndVersion(postId, fixedVersion, slug,
                                   OrUndefined(token), Shift(failAt, Len(before)))
                      IN  PostView(r, before \o r.reqs, IF lookedUp THEN 2 ELSE 1)
                 ELSE LET r == fetchPostBySlug(slug, isDraft, token, failAt)
                      IN  PostView(r, r.reqs, 3)

\* ------------------------------------------------------------ store contents
\* the id of the i-th row of a collection
IdOf(i) == <<"i">> \o [j \in 1..i |-> "x"]

Post(i, slug, status, at) ==
    [id |-> IdOf(i), slug |-> slug, status |-> status, published_at |-> at]

PostKinds == {[slug |-> s, status |-> st] : s \in {SlugA, SlugB}, st \in {"published", "draft"}}

\* every posts collection of at most n rows; a draft has no publication date (0),
\* the i-th row, when published, was published at time i
PostStores(n) ==
    UNION {{[i \in 1..k |-> Post(i, f[i].slug, f[i].status,
                                   IF f[i].status = "published" THEN i ELSE 0)] :
               f \in [1..k -> PostKinds]} : k \in 0..n}

\* more published posts than the default limit of a posts block, not stored in
\* the order of their publication
ManyPosts == [i \in 1..(DefaultLimit + 1) |-> Post(i, SlugB, "published", (i * 3) % 7)]

MixedPosts ==
    <<Post(1, SlugA, "published", 1), Post(2, SlugB, "draft", 0),
      Post(3, SlugB, "published", 2), Post(4, SlugA, "published", 2)>>

Item(kind, hasCollection, collection, limit) ==
    [kind |-> kind, hasCollection |-> hasCollection, collection |-> collection,
     limit |-> limit, hasPosts |-> FALSE, posts |-> <<>>]

Block(collection, sort, hide, item) ==
    [collection |-> collection, sort |-> sort, hide_block |-> hide, item |-> item]

RichtextBlock == Block("block_richtext", 2, FALSE, Item("object", FALSE, "", NoNum))
HiddenBlock == Block("block_richtext", 1, TRUE, Item("object", FALSE, "", NoNum))
PostsBlock == Block("block_posts", 1, FALSE, Item("object", TRUE, "posts", NoNum))
LimitedPostsBlock == Block("block_posts", 3, FALSE, Item("object", TRUE, "posts", 2))
UnexpandedPostsBlock == Block("block_posts", 2, FALSE, Item("string", FALSE, "", NoNum))
EmptyPostsBlock == Block("block_posts", 1, FALSE, Item("null", FALSE, "", NoNum))

BlockKinds ==
    {RichtextBlock, HiddenBlock, PostsBlock, LimitedPostsBlock, UnexpandedPostsBlock,
     EmptyPostsBlock}

BlockLists(n) == UNION {[1..k -> BlockKinds] : k \in 0..n}

PageRow(i, permalink, status, hasBlocks, blocks) ==
    [id |-> IdOf(i), permalink |-> permalink, status |-> status,
     hasBlocks |-> hasBlocks, blocks |-> blocks]

\* the pages collections of one row at the root permalink, and the empty one
PageStores ==
    {<<>>}
    \cup {<<PageRow(1, Root, "published", TRUE, bl)>> : bl \in BlockLists(MaxBlocks)}
    \cup {<<PageRow(1, Root, "draft", TRUE, <<PostsBlock>>)>>}
    \cup {<<PageRow(1, Root, st, FALSE, <<>>)>> : st \in {"published", "draft"}}

\* ------------------------------------------------------------------- inputs
Tokens == {Undefined, Empty, Token}
Permalinks == {Root, PathA}
Slugs == {SlugA, SlugB}
BlankStrings == {Empty, Space}
Versions == {Undefined, Main, PublishedVersion, VersionV}
Previews == {Undefined, TrueParam}

Idle == [op |-> "none", args |-> <<>>, failAt |-> 0, res |-> <<>>]

Called(op, args, failAt, res) == [op |-> op, args |-> args, failAt |-> failAt, res |-> res]

\* ------------------------------------------------------------------ actions
FetchPageData ==
    /\ call = Idle
    /\ \E permalink \in Permalinks, postPage \in 1..MaxPostPage, token \in Tokens,
          preview \in BOOLEAN, failAt \in 0..(MaxBlocks + 1) :
          call' = Called("fetchPageData",
                         [permalink |-> permalink, postPage |-> postPage,
                          token |-> token, preview |-> preview], failAt,
                         fetchPageData(permalink, postPage, token, preview, failAt))
    /\ UNCHANGED <<pages, posts>>

FetchPostBySlug ==
    /\ call = Idle
    /\ \E slug \in Slugs, draft \in BOOLEAN, token \in Tokens, failAt \in 0..2 :
          call' = Called("fetchPostBySlug",
                         [slug |-> slug, draft |-> draft, token |-> token], failAt,
                         fetchPostBySlug(slug, draft, token, failAt))
    /\ UNCHANGED <<pages, posts>>

FetchPageDataById ==
    /\ call = Idle
    /\ \E id \in BlankStrings \cup {IdOf(1), IdOf(2)},
          version \in BlankStrings \cup {Undefined, VersionV},
          token \in {Undefined, Token}, failAt \in 0..1 :
          call' = Called("fetchPageDataById",
                         [id |-> id, version |-> version, token |-> token], failAt,
                         fetchPageDataById(id, version, token, failAt))
    /\ UNCHANGED <<pages, posts>>

GetPageIdByPermalink ==
    /\ call = Idle
    /\ \E permalink \in BlankStrings \cup Permalinks, token \in {Undefined, Token},
          failAt \in 0..1 :
          call' = Called("getPageIdByPermalink",
                         [permalink |-> permalink, token |-> token], failAt,
                         getPageIdByPermalink(permalink, token, failAt))
    /\ UNCHANGED <<pages, posts>>

GetPostIdBySlug ==
    /\ call = Idle
    /\ \E slug \in BlankStrings \cup Slugs, token \in {Undefined, Token}, failAt \in 0..1 :
          call' = Called("getPostIdBySlug", [slug |-> slug, token |-> token], failAt,
                         getPostIdBySlug(slug, token, failAt))
    /\ UNCHANGED <<pages, posts>>

FetchPostByIdAndVersion ==
    /\ call = Idle
    /\ \E id \in BlankStrings \cup {IdOf(1)}, version \in BlankStrings \cup {VersionV},
          slug \in BlankStrings \cup {SlugA}, token \in {Undefined, Token},
          failAt \in 0..2 :
          call' = Called("fetchPostByIdAndVersion",
                         [id |-> id, version |-> version, slug |-> slug, token |-> token],
                         failAt, fetchPostByIdAndVersion(id, version, slug, token, failAt))
    /\ UNCHANGED <<pages, posts>>

FetchSiteData ==
    /\ call = Idle
    /\ \E failAt \in 0..3 :
          call' = Called("fetchSiteData", <<>>, failAt, fetchSiteData(failAt))
    /\ UNCHANGED <<pages, posts>>

FetchPaginatedPosts ==
    /\ call = Idle
    /\ \E limit \in 1..2, page \in 1..MaxPostPage, failAt \in 0..1 :
          call' = Called("fetchPaginatedPosts", [limit |-> limit, page |-> page], failAt,
                         fetchPaginatedPosts(limit, page, failAt))
    /\ UNCHANGED <<pages, posts>>

FetchTotalPostCount ==
    /\ call = Idle
    /\ \E failAt \in 0..1 :
          call' = Called("fetchTotalPostCount", <<>>, failAt, fetchTotalPostCount(failAt))
    /\ UNCHANGED <<pages, posts>>

FetchRedirects ==
    /\ call = Idle
    /\ \E failAt \in 0..1 :
          call' = Called("fetchRedirects", <<>>, failAt, fetchRedirects(failAt))
    /\ UNCHANGED <<pages, posts>>

RenderPage ==
    /\ call = Idle
    /\ \E segments \in {<<>>, <<SlugA>>}, id \in {Undefined, IdOf(1), Space},
          version \in Versions, preview \in Previews, token \in {Undefined, Token},
          failAt \in 0..2 :
          call' = Called("Page",
                         [segments |-> segments, id |-> id, version |-> version,
                          preview |-> preview, token |-> token], failAt,
                         Page(segments, id, version, preview, token, failAt))
    /\ UNCHANGED <<pages, posts>>

RenderBlogPostPage ==
    /\ call = Idle
    /\ \E slug \in {SlugA, SlugB, Space}, id \in {Undefined, IdOf(1), Space},
          version \in Versions, preview \in Previews, token \in {Undefined, Token},
          failAt \in 0..3 :
          call' = Called("BlogPostPage",
                         [slug |-> slug, id |-> id, version |-> version,
                          preview |-> preview, token |-> token], failAt,
                         BlogPostPage(slug, id, version, preview, token, failAt))
    /\ UNCHANGED <<pages, posts>>

\* the caller takes the settled result; the fetchers keep no state between calls
Settle ==
    /\ call # Idle
    /\ call' = Idle
    /\ UNCHANGED <<pages, posts>>

\* fetchPageData over every pages collection and three posts collections
InitPages ==
    /\ pages \in PageStores
    /\ posts \in {<<>>, MixedPosts, ManyPosts}
    /\ call = Idle

NextPages == FetchPageData \/ Settle

SpecPages == InitPages /\ [][NextPages]_vars

\* fetchPostBySlug over every posts collection
InitPosts ==
    /\ pages = <<>>
    /\ posts \in PostStores(MaxPosts)
    /\ call = Idle

NextPosts == FetchPostBySlug \/ Settle

SpecPosts == InitPosts /\ [][NextPosts]_vars

\* every fetcher and both route handlers over a sample of stores
SamplePages ==
    {<<>>,
     <<PageRow(1, Root, "published", TRUE, <<RichtextBlock>>)>>,
     <<PageRow(1, Root, "published", TRUE, <<PostsBlock, RichtextBlock>>)>>,
     <<PageRow(1, Root, "published", TRUE, <<>>)>>,
     <<PageRow(1, Root, "published", TRUE, <<HiddenBlock>>)>>,
     <<PageRow(1, Root, "published", FALSE, <<>>)>>,
     <<PageRow(1, Root, "draft", TRUE, <<RichtextBlock>>)>>,
     <<PageRow(1, PathA, "published", TRUE, <<LimitedPostsBlock>>)>>}

SamplePosts ==
    {<<>>,
     <<Post(1, SlugA, "draft", 0)>>,
     <<Post(1, SlugA, "published", 1)>>,
     <<Post(1, SlugA, "published", 1), Post(2, SlugB, "published", 2),
       Post(3, SlugB, "draft", 0)>>}

Init ==
    /\ pages \in SamplePages
    /\ posts \in SamplePosts
    /\ call = Idle

Next ==
    \/ FetchPageData
    \/ FetchPageDataById
    \/ GetPageIdByPermalink
    \/ GetPostIdBySlug
    \/ FetchPostByIdAndVersion
    \/ FetchSiteData
    \/ FetchPostBySlug
    \/ FetchPaginatedPosts
    \/ FetchTotalPostCount
    \/ FetchRedirects
    \/ RenderPage
    \/ RenderBlogPostPage
    \/ Settle

Spec == Init /\ [][Next]_vars

\* ------------------------------------------------------------------- claims
\* s is the empty string or consists of whitespace only
WhitespaceOnly(s) == s # Undefined /\ \A i \in 1..Len(s) : s[i] = " "

\* the store holds no published page at the permalink
NoPublishedPage(permalink) ==
    \A i \in 1..Len(pages) :
        ~(pages[i].permalink = permalink /\ pages[i].status = "published")

\* C1: fetchPageData, called without both preview = true and a non-empty token
\* for a permalink with no published page, fails with a NotFound failure that
\* differs from the failure the same call gives when the store request fails.
C1_NotFoundDistinct ==
    (/\ call.op = "fetchPageData"
     /\ call.failAt = 0
     /\ NoPublishedPage(call.args.permalink)
     /\ ~(call.args.preview /\ call.args.token \notin {Undefined, Empty}))
    => /\ ~call.res.ok
       /\ call.res.err = PageNotFound
       /\ call.res.err # fetchPageData(call.args.permalink, call.args.postPage,
                                       call.args.token, call.args.preview, 1).err

\* C2: in both route handlers a request with version = "main" issues the same
\* store requests and yields the same outcome as the request with version absent.
C2_MainSameAsAbsent ==
    /\ (call.op = "BlogPostPage" /\ call.args.version = Main)
       => call.res = BlogPostPage(call.args.slug, call.args.id, Undefined,
                                  call.args.preview, call.args.token, call.failAt)
    /\ (call.op = "Page" /\ call.args.version = Main)
       => call.res = Page(call.args.segments, call.args.id, Undefined,
                          call.args.preview, call.args.token, call.failAt)

\* C3: fetchPostBySlug called with neither a truthy draft flag nor a non-empty
\* token sends the status = published condition in its primary query, and the
\* post it returns, if any, is published.
C3_PublishedOnly ==
    (/\ call.op = "fetchPostBySlug"
     /\ ~call.args.draft
     /\ call.args.token \in {Undefined, Empty})
    => /\ call.res.reqs[1].published
       /\ call.res.reqs[1].eq = call.args.slug
       /\ (call.res.ok /\ call.res.val.post # <<>>)
          => call.res.val.post[1].status = "published"

\* an unpublished post with the requested slug comes first in the store and a
\* published one is returned instead
C3_Witness ==
    /\ call.op = "fetchPostBySlug"
    /\ ~call.args.draft
    /\ call.args.token = Undefined
    /\ Len(posts) > 1
    /\ posts[1].slug = call.args.slug
    /\ posts[1].status = "draft"
    /\ call.res.ok
    /\ call.res.val.post # <<>>
    /\ call.res.val.post[1].id # posts[1].id

\* C4: fetchPageDataById with an empty or whitespace-only id or version, and
\* fetchPostByIdAndVersion with an empty or whitespace-only id, version or slug,
\* fail with an invalid-argument error and issue no store request.
C4_ValidationFirst ==
    /\ (/\ call.op = "fetchPageDataById"
        /\ (WhitespaceOnly(call.args.id) \/ WhitespaceOnly(call.args.version)))
       => /\ ~call.res.ok
          /\ call.res.err \in {InvalidId, InvalidVersion}
          /\ call.res.reqs = <<>>
    /\ (/\ call.op = "fetchPostByIdAndVersion"
        /\ (\/ WhitespaceOnly(call.args.id)
            \/ WhitespaceOnly(call.args.version)
            \/ WhitespaceOnly(call.args.slug)))
       => /\ ~call.res.ok
          /\ call.res.err \in {InvalidId, InvalidVersion, InvalidSlug}
          /\ call.res.reqs = <<>>

\* a whitespace-only slug with a valid id and version is rejected before any request
C4_Witness ==
    /\ call.op = "fetchPostByIdAndVersion"
    /\ call.args.slug = Space
    /\ call.args.id = IdOf(1)
    /\ call.args.version = VersionV
    /\ call.res.err = InvalidSlug
    /\ call.res.reqs = <<>>

IsIdLookup(r) == r.op = "readItems" /\ r.fields = "id"
IsVersionFetch(r) == r.op = "readItem" /\ r.version # Undefined
IsPathResolver(r) ==
    r.op = "readItems" /\ r.fields \in {"pageFields", "postFields"} /\ r.eq # Undefined

HandlerCall == call.op \in {"Page", "BlogPostPage"}

\* the inputs of the second resolution path: a version other than "main", no id
SecondPath ==
    /\ call.args.version \notin {Undefined, Empty, Main}
    /\ call.args.id \in {Undefined, Empty}

\* the key the id lookup of the handler call searches for
LookupKey ==
    IF call.op = "Page" THEN ResolvedPermalink(call.args.segments) ELSE call.args.slug

\* the ids of the rows the id lookup of the handler call can find
LookupIds ==
    IF call.op = "Page"
    THEN {pages[i].id : i \in {j \in 1..Len(pages) : pages[j].permalink = LookupKey}}
    ELSE {posts[i].id : i \in {j \in 1..Len(posts) : posts[j].slug = LookupKey}}

\* C5: a route handler call follows exactly one of the three resolution paths;
\* on the second one the id lookup comes first, and when it yields no id the
\* call ends in not-found with no further request, else the id+version fetch
\* of the id found follows.
C5_OnePath ==
    HandlerCall =>
        LET reqs == call.res.reqs
            lookups == Len(SelectSeq(reqs, IsIdLookup))
            fetches == Len(SelectSeq(reqs, IsVersionFetch))
            resolves == Len(SelectSeq(reqs, IsPathResolver))
        IN  /\ lookups <= 1 /\ fetches <= 1 /\ resolves <= 1
            /\ ~(fetches > 0 /\ resolves > 0)
            /\ ~(lookups > 0 /\ resolves > 0)
            /\ lookups > 0 => (SecondPath /\ IsIdLookup(reqs[1]))
            /\ SecondPath =>
                  /\ resolves = 0
                  /\ reqs # <<>> => IsIdLookup(reqs[1]) /\ reqs[1].eq = LookupKey
                  /\ (call.failAt = 1 \/ LookupIds = {})
                     => call.res.outcome = "notFound" /\ Len(reqs) <= 1
                  /\ Len(reqs) > 1
                     => IsVersionFetch(reqs[2]) /\ reqs[2].id \in LookupIds
                  /\ (call.failAt # 1 /\ LookupIds # {} /\ ~WhitespaceOnly(LookupKey))
                     => Len(reqs) > 1

\* the post route looks up a slug no row has: one request, then not-found
C5_Witness ==
    /\ call.op = "BlogPostPage"
    /\ SecondPath
    /\ call.failAt = 0
    /\ LookupIds = {}
    /\ Len(posts) > 0
    /\ Len(call.res.reqs) = 1
    /\ IsIdLookup(call.res.reqs[1])
    /\ call.res.outcome = "notFound"

\* C6: a route handler never renders an entity without content: a rendered page
\* has at least one block, a rendered post is a post of the store.
C6_NoContentIsNotFound ==
    /\ (call.op = "Page" /\ call.res.outcome = "render")
       => Len(call.res.view.sections) > 0
    /\ (call.op = "BlogPostPage" /\ call.res.outcome = "render")
       => call.res.view.post \in RowSet(posts)
    /\ HandlerCall => call.res.outcome \in {"render", "notFound"}

\* the message under which each propagating resolver reports a failure
GenericError ==
    [fetchPageData |-> FailedPageData, fetchPageDataById |-> FailedVersionedPage,
     fetchPostBySlug |-> FailedPostBySlug, fetchPostByIdAndVersion |-> FailedVersionedPost,
     fetchSiteData |-> FailedSiteData, fetchPaginatedPosts |-> FailedPaginatedPosts,
     fetchRedirects |-> "Failed to fetch redirects"]

\* C7: when a store request of a propagating resolver fails, the caller gets
\* that resolver's generic error, never the store's own error.
C7_GenericFailure ==
    (/\ call.op \in DOMAIN GenericError
     /\ call.failAt \in 1..Len(call.res.reqs))
    => /\ ~call.res.ok
       /\ call.res.err # StoreError
       /\ call.res.err = GenericError[call.op]

\* C8: on a failed store request fetchTotalPostCount returns 0 and the id-lookup
\* helpers return null; the helpers also return null when no row matches, and
\* fail only for an empty or whitespace-only permalink or slug.
C8_DegradeToDefault ==
    /\ (call.op = "fetchTotalPostCount" /\ call.failAt = 1)
       => call.res.ok /\ call.res.val = 0
    /\ call.op = "fetchTotalPostCount" => call.res.ok
    /\ call.op = "getPageIdByPermalink" =>
          /\ call.res.ok <=> ~WhitespaceOnly(call.args.permalink)
          /\ (call.res.ok /\ call.failAt = 1) => call.res.val = NullId
          /\ (/\ call.res.ok
              /\ \A i \in 1..Len(pages) : pages[i].permalink # call.args.permalink)
             => call.res.val = NullId
    /\ call.op = "getPostIdBySlug" =>
          /\ call.res.ok <=> ~WhitespaceOnly(call.args.slug)
          /\ (call.res.ok /\ call.failAt = 1) => call.res.val = NullId
          /\ (/\ call.res.ok
              /\ \A i \in 1..Len(posts) : posts[i].slug # call.args.slug)
             => call.res.val = NullId

\* the store fails while a row with the slug exists: the helper returns null
C8_Witness ==
    /\ call.op = "getPostIdBySlug"
    /\ call.failAt = 1
    /\ \E i \in 1..Len(posts) : posts[i].slug = call.args.slug
    /\ Len(call.res.reqs) = 1
    /\ call.res.ok
    /\ call.res.val = NullId

\* the shape of a posts block as the claim describes it
ExpectedShape(b) ==
    /\ b.collection = "block_posts"
    /\ b.item.kind = "object"
    /\ b.item.hasCollection
    /\ b.item.collection = "posts"

\* rows are published posts of the store in descending published_at order
NewestFirst(rows) ==
    /\ \A k \in 1..Len(rows) : rows[k] \in RowSet(posts) /\ rows[k].status = "published"
    /\ \A j, k \in 1..Len(rows) : j < k => rows[j].published_at >= rows[k].published_at

\* C9: in the page fetchPageData returns for page number p, every block of the
\* expected posts shape carries the published-posts query's result for page p
\* and the block's limit (6 when unset): at most that many posts, newest first;
\* every other block, and the number and order of the blocks, are as resolved.
C9_Enrichment ==
    (call.op = "fetchPageData" /\ call.res.ok) =>
        LET resolved == ReadPages(call.res.reqs[1])[1]
            before == resolved.blocks
            after == call.res.val.blocks
        IN  /\ [call.res.val EXCEPT !.blocks = before] = resolved
            /\ Len(after) = Len(before)
            /\ \A i \in 1..Len(before) :
                  IF resolved.hasBlocks /\ ExpectedShape(before[i])
                  THEN LET limit == IF before[i].item.limit = NoNum
                                    THEN 6 ELSE before[i].item.limit
                           got == after[i].item.posts
                       IN  /\ after[i] = [before[i] EXCEPT !.item.hasPosts = TRUE,
                                                            !.item.posts = got]
                           /\ got = ReadPosts(PostsBlockQuery(limit, call.args.postPage))
                           /\ Len(got) <= limit
                           /\ NewestFirst(got)
                  ELSE after[i] = before[i]

\* a posts block without a limit gets 6 of more than 6 published posts, next to
\* a block of another kind
C9_Witness ==
    /\ call.op = "fetchPageData"
    /\ call.res.ok
    /\ call.args.postPage = 1
    /\ Len(posts) > 6
    /\ \E i, j \in 1..Len(call.res.val.blocks) :
          /\ call.res.val.blocks[i].item.hasPosts
          /\ call.res.val.blocks[i].item.limit = NoNum
          /\ Len(call.res.val.blocks[i].item.posts) = 6
          /\ call.res.val.blocks[j].collection = "block_richtext"
          /\ ~call.res.val.blocks[j].item.hasPosts

\* C10: fetchPostBySlug, the store answering, returns a post matching the
\* primary filter when there is one and post = null otherwise, with
\* min(2, number of published posts of another slug) related posts, each
\* published and of another slug.
C10_PostAndRelated ==
    (call.op = "fetchPostBySlug" /\ call.failAt = 0) =>
        LET slug == call.args.slug
            unfiltered == call.args.draft \/ call.args.token \notin {Undefined, Empty}
            matches == {i \in 1..Len(posts) :
                           /\ posts[i].slug = slug
                           /\ (unfiltered \/ posts[i].status = "published")}
            others == {i \in 1..Len(posts) :
                          posts[i].slug # slug /\ posts[i].status = "published"}
            related == call.res.val.relatedPosts
        IN  /\ call.res.ok
            /\ matches # {} => \E i \in matches : call.res.val.post = <<posts[i]>>
            /\ matches = {} => call.res.val.post = <<>>
            /\ Len(related) = Min(2, Cardinality(others))
            /\ \A k \in 1..Len(related) : \E i \in others : related[k] = posts[i]
            /\ \A j, k \in 1..Len(related) : j # k => related[j] # related[k]

\* one published post of the slug and three other published posts: the post
\* and two related posts come back
C10_Witness ==
    /\ call.op = "fetchPostBySlug"
    /\ call.failAt = 0
    /\ call.args.draft = FALSE
    /\ call.args.token = Undefined
    /\ Len(posts) = 4
    /\ Cardinality({i \in 1..4 : posts[i].slug = call.args.slug}) = 1
    /\ \A i \in 1..4 : posts[i].status = "published"
    /\ call.res.val.post # <<>>
    /\ Len(call.res.val.relatedPosts) = 2

\* C11: the related posts a BlogPostPage call hands to the view never contain
\* the post it renders: no related post has the id of the primary post.
C11_RelatedExcludesPrimary ==
    (call.op = "BlogPostPage" /\ call.res.outcome = "render") =>
        \A k \in 1..Len(call.res.view.relatedPosts) :
            call.res.view.relatedPosts[k].id # call.res.view.post.id

====
